---- MODULE Spec2Model ----
(***************************************************************************)
(* A model of inih_rust: the line parser of src/src/parser.rs driven over  *)
(* an input of text lines, and the two event consumers found in the        *)
(* repository: the Indexed Reader of src/src/reader.rs and the recording,  *)
(* rejecting AdvancedConfig handler of src/examples/advanced_example.rs.   *)
(*                                                                         *)
(* A text is a sequence of one-character strings.  Positions are 1-based   *)
(* character positions; an Option<usize> of the code is a position, with 0 *)
(* for None.  All characters of the model are ASCII except the byte order  *)
(* mark, so byte positions and character positions of the code agree in    *)
(* every slice the code takes; only str::len counts the mark as 3 bytes.   *)
(***************************************************************************)
EXTENDS Integers, Sequences, FiniteSets, TLC

VARIABLES
    opts,         \* ParseOptions of the parse
    handler,      \* which consumer is attached: "reader" or "config"
    source,       \* where the lines come from: a text and the path that split it
    lines,        \* the input: the lines handed to ini_parse_lines_with_options
    pc,           \* "parsing" | "done" (the parse has returned) | "calls"
    line_number,  \* lines processed so far (the loop's line_number)
    section,      \* current section
    prev_name,    \* previous key
    first_error,  \* first remembered error
    result,       \* what the parse returned
    values,       \* IniReader.values: a function from keys to texts
    sections,     \* IniReader.sections
    recorded,     \* AdvancedConfig.values
    answer,       \* the last accessor call on the reader and what it returned
    log           \* history, one entry per processed line (or direct call): its
                  \* number, the section and previous key before it, the
                  \* handler call made for it and the error it raised

vars == <<opts, handler, source, lines, pc, line_number, section, prev_name,
          first_error, result, values, sections, recorded, answer, log>>

----------------------------------------------------------------------------
(* Bounds of the model *)

\* the longest input of the driver specification, in lines
MaxLines == 3
\* the single-line specification tries every line up to this length
MaxStrLen == 3
\* the most direct handle calls of the reader specification
MaxCalls == 3

----------------------------------------------------------------------------
(* Texts *)

BOM == "BOM"
NL == "\n"

\* char::is_whitespace, on the characters of the model: the space, the tab
\* and the line terminator
IsWhitespace(c) == c \in {" ", "\t", NL}

\* str::len: the length in bytes (U+FEFF takes 3 bytes in UTF-8)
ByteLen(s) == Len(s) + 2 * Cardinality({i \in 1..Len(s) : s[i] = BOM})

Min(S) == CHOOSE m \in S : \A n \in S : m <= n
Max(S) == CHOOSE m \in S : \A n \in S : m >= n

\* str::trim_start
TrimStart(s) ==
    LET keep == {i \in 1..Len(s) : ~IsWhitespace(s[i])}
    IN IF keep = {} THEN <<>> ELSE SubSeq(s, Min(keep), Len(s))

\* str::trim_end
TrimEnd(s) ==
    LET keep == {i \in 1..Len(s) : ~IsWhitespace(s[i])}
    IN IF keep = {} THEN <<>> ELSE SubSeq(s, 1, Max(keep))

\* str::trim
Trim(s) == TrimEnd(TrimStart(s))

\* str::contains(char) and str::starts_with(char)
Contains(s, c) == \E i \in 1..Len(s) : s[i] = c
StartsWith(s, c) == Len(s) > 0 /\ s[1] = c

UpperChars == <<"A","B","C","D","E","F","G","H","I","J","K","L","M",
                "N","O","P","Q","R","S","T","U","V","W","X","Y","Z">>
LowerChars == <<"a","b","c","d","e","f","g","h","i","j","k","l","m",
                "n","o","p","q","r","s","t","u","v","w","x","y","z">>

LowerChar(c) ==
    IF \E i \in 1..Len(UpperChars) : UpperChars[i] = c
    THEN LowerChars[CHOOSE i \in 1..Len(UpperChars) : UpperChars[i] = c]
    ELSE c

\* str::to_lowercase
ToLower(s) == [i \in 1..Len(s) |-> LowerChar(s[i])]

----------------------------------------------------------------------------
(* Errors *)

NoError == [kind |-> "None"]
Ok == [kind |-> "Ok"]
ParseError(n, msg) == [kind |-> "ParseError", line |-> n, message |-> msg]
HandlerError(msg) == [kind |-> "HandlerError", message |-> msg]

\* no accessor has been called yet
NoAnswer == [op |-> "none"]

----------------------------------------------------------------------------
(* The scanners of parser.rs *)

RECURSIVE FindScan(_, _, _, _, _, _)
FindScan(s, i, was_space, target, comment_prefixes, allow_inline_comments) ==
    IF i > Len(s) THEN 0
    ELSE IF s[i] = target THEN i
    ELSE IF allow_inline_comments /\ was_space /\ Contains(comment_prefixes, s[i]) THEN i
    ELSE FindScan(s, i + 1, IsWhitespace(s[i]), target, comment_prefixes,
                  allow_inline_comments)

\* find_char_or_comment: the position of the first target character, or of
\* the first comment character that follows whitespace; 0 for None
find_char_or_comment(s, target, comment_prefixes, allow_inline_comments) ==
    FindScan(s, 1, FALSE, target, comment_prefixes, allow_inline_comments)

RECURSIVE RemoveScan(_, _, _, _)
RemoveScan(s, i, was_space, comment_prefixes) ==
    IF i > Len(s) THEN Trim(s)
    ELSE IF was_space /\ Contains(comment_prefixes, s[i])
         THEN Trim(SubSeq(s, 1, i - 1))
    ELSE RemoveScan(s, i + 1, IsWhitespace(s[i]), comment_prefixes)

\* mutant: a comment character counts whatever precedes it
remove_inline_comment_AnyPosition(s, comment_prefixes) ==
    LET hit == {j \in 1..Len(s) : Contains(comment_prefixes, s[j])}
    IN IF hit = {} THEN Trim(s) ELSE Trim(SubSeq(s, 1, Min(hit) - 1))

\* remove_inline_comment
remove_inline_comment(s, comment_prefixes) ==
    RemoveScan(s, 1, FALSE, comment_prefixes)

----------------------------------------------------------------------------
(* parse_line, block by block *)

\* lines 187-190: the byte order mark is dropped from line 1
StripBom(line, o, n) ==
    IF n = 1 /\ o.allow_bom /\ StartsWith(line, BOM) THEN Tail(line) ELSE line

\* line 201: a start-of-line comment
IsStartComment(trimmed, o) ==
    \E i \in 1..Len(o.start_comment_prefixes) :
        StartsWith(trimmed, o.start_comment_prefixes[i])

\* line 206: the line continues the previous key
IsContinuation(line, trimmed, prev, o) ==
    /\ o.allow_multiline
    /\ prev # <<>>
    /\ trimmed # <<>>
    /\ Len(line) > 0 /\ IsWhitespace(line[1])

\* mutant: the indentation is dropped
ContinuationValue_Trimmed(line, trimmed, o) ==
    IF o.allow_inline_comments
    THEN remove_inline_comment(trimmed, o.inline_comment_prefixes)
    ELSE trimmed

\* lines 207-215: the value of a continuation line
ContinuationValue(line, trimmed, o) ==
    IF o.allow_inline_comments
    THEN LET comment_removed == remove_inline_comment(trimmed, o.inline_comment_prefixes)
             indent_len == Len(line) - Len(TrimStart(line))
         IN SubSeq(line, 1, indent_len) \o comment_removed
    ELSE line

\* line 223: where the section name ends
SectionEnd(trimmed, o) ==
    find_char_or_comment(trimmed, "]", o.inline_comment_prefixes,
                         o.allow_inline_comments)

\* mutant: '=' wins over an earlier ':'
SepPos_PrefersEquals(trimmed, o) ==
    LET eq_pos == find_char_or_comment(trimmed, "=", o.inline_comment_prefixes,
                                       o.allow_inline_comments)
        colon_pos == find_char_or_comment(trimmed, ":", o.inline_comment_prefixes,
                                          o.allow_inline_comments)
    IN IF eq_pos # 0 THEN eq_pos ELSE colon_pos

\* lines 242-250: the separator position
SepPos(trimmed, o) ==
    LET eq_pos == find_char_or_comment(trimmed, "=", o.inline_comment_prefixes,
                                       o.allow_inline_comments)
        colon_pos == find_char_or_comment(trimmed, ":", o.inline_comment_prefixes,
                                          o.allow_inline_comments)
    IN IF eq_pos # 0 /\ colon_pos # 0
       THEN (IF eq_pos < colon_pos THEN eq_pos ELSE colon_pos)
       ELSE IF eq_pos # 0 THEN eq_pos
       ELSE colon_pos

\* line 253
PairName(trimmed, sep_pos) == Trim(SubSeq(trimmed, 1, sep_pos - 1))

\* lines 254-263
PairValue(trimmed, sep_pos, o) ==
    IF sep_pos < Len(trimmed)
    THEN LET value_part == SubSeq(trimmed, sep_pos + 1, Len(trimmed))
         IN IF o.allow_inline_comments
            THEN remove_inline_comment(value_part, o.inline_comment_prefixes)
            ELSE Trim(value_part)
    ELSE <<>>

\* lines 273-277
NoValueName(trimmed, o) ==
    IF o.allow_inline_comments
    THEN remove_inline_comment(trimmed, o.inline_comment_prefixes)
    ELSE trimmed

Event(s, n, v) == [section |-> s, name |-> n, value |-> v]

\* what one line does
Outcome(s, p, call, err) ==
    [section |-> s, prev_name |-> p, call |-> call, error |-> err]

\* mutant: an accepted header announces the section without entering it
SectionHeader_KeepsSection(trimmed, sec, prev, o, n) ==
    LET end_pos == SectionEnd(trimmed, o)
    IN IF end_pos > 2
       THEN LET section_name == SubSeq(trimmed, 2, end_pos - 1)
            IN Outcome(sec, <<>>, <<Event(section_name, <<>>, <<>>)>>, NoError)
       ELSE Outcome(sec, prev, <<>>, ParseError(n, "Missing ']' in section header"))

\* mutant: a rejected header forgets the previous key
SectionHeader_ResetsOnError(trimmed, sec, prev, o, n) ==
    LET end_pos == SectionEnd(trimmed, o)
    IN IF end_pos > 2
       THEN LET section_name == SubSeq(trimmed, 2, end_pos - 1)
            IN Outcome(section_name, <<>>, <<Event(section_name, <<>>, <<>>)>>,
                       NoError)
       ELSE Outcome(sec, <<>>, <<>>, ParseError(n, "Missing ']' in section header"))

\* mutant: the section call is made only with call_handler_on_new_section
SectionHeader_Gated(trimmed, sec, prev, o, n) ==
    LET end_pos == SectionEnd(trimmed, o)
    IN IF end_pos > 2
       THEN LET section_name == SubSeq(trimmed, 2, end_pos - 1)
            IN Outcome(section_name, <<>>,
                       IF o.call_handler_on_new_section
                       THEN <<Event(section_name, <<>>, <<>>)>> ELSE <<>>,
                       NoError)
       ELSE Outcome(sec, prev, <<>>, ParseError(n, "Missing ']' in section header"))

\* lines 222-238: a section header
SectionHeader(trimmed, sec, prev, o, n) ==
    LET end_pos == SectionEnd(trimmed, o)
    IN IF end_pos > 2
       THEN LET section_name == SubSeq(trimmed, 2, end_pos - 1)
            IN Outcome(section_name, <<>>, <<Event(section_name, <<>>, <<>>)>>,
                       NoError)
       ELSE Outcome(sec, prev, <<>>, ParseError(n, "Missing ']' in section header"))

\* mutant: an unrecognized line is an error in lenient mode and skipped in
\* strict mode
Fallback_Inverted(sec, prev, o, n) ==
    IF o.stop_on_first_error
    THEN Outcome(sec, prev, <<>>, NoError)
    ELSE Outcome(sec, prev, <<>>, ParseError(n, "Invalid line format"))

\* lines 285-299: no shape matched
Fallback(sec, prev, o, n) ==
    IF o.stop_on_first_error
    THEN Outcome(sec, prev, <<>>, ParseError(n, "Invalid line format"))
    ELSE Outcome(sec, prev, <<>>, NoError)

\* parse_line up to the handler's answer: the new section and previous key,
\* the handler call it makes (none, or one event) and the ParseError it
\* returns without calling the handler
parse_line(raw, sec, prev, o, n) ==
    LET line == StripBom(raw, o, n)
        trimmed == Trim(line)
    IN IF trimmed = <<>> THEN Outcome(sec, prev, <<>>, NoError)
       ELSE IF IsStartComment(trimmed, o) THEN Outcome(sec, prev, <<>>, NoError)
       ELSE IF IsContinuation(line, trimmed, prev, o)
            THEN Outcome(sec, prev, <<Event(sec, prev, ContinuationValue(line, trimmed, o))>>,
                         NoError)
       ELSE IF StartsWith(trimmed, "[") THEN SectionHeader(trimmed, sec, prev, o, n)
       ELSE LET sep_pos == SepPos(trimmed, o)
            IN IF sep_pos # 0
               THEN LET name == PairName(trimmed, sep_pos)
                    IN Outcome(sec, name,
                               <<Event(sec, name, PairValue(trimmed, sep_pos, o))>>,
                               NoError)
               ELSE IF o.allow_no_value
                    THEN LET name == NoValueName(trimmed, o)
                         IN Outcome(sec, name, <<Event(sec, name, <<>>)>>, NoError)
               ELSE Fallback(sec, prev, o, n)

----------------------------------------------------------------------------
(* The consumers *)

\* mutant: the name is not lowercased
make_key_NameAsGiven(sec, name) == ToLower(sec) \o <<"=">> \o name

\* IniReader::make_key
make_key(sec, name) == ToLower(sec) \o <<"=">> \o ToLower(name)

\* mutant: the empty section is registered like any other
ReaderSections_AnySection(secs, sec) == secs \cup {sec}

\* IniReader::handle, lines 171-174: the section set after the call
ReaderSections(secs, sec) == IF sec # <<>> THEN secs \cup {sec} ELSE secs

\* mutant: a store to an existing key replaces its value
ReaderValues_Overwrite(vals, sec, name, value) ==
    IF name = <<>> THEN vals
    ELSE LET key == ToLower(sec) \o <<"=">> \o ToLower(name)
         IN IF key \in DOMAIN vals
            THEN [vals EXCEPT ![key] = value]
            ELSE vals @@ (key :> value)

\* IniReader::handle, lines 176-189: the values after the call
ReaderValues(vals, sec, name, value) ==
    IF name = <<>> THEN vals
    ELSE LET key == make_key(sec, name)
         IN IF key \in DOMAIN vals
            THEN [vals EXCEPT ![key] = @ \o <<NL>> \o value]
            ELSE vals @@ (key :> value)

\* IniReader::get
get(vals, sec, name, default_value) ==
    LET key == make_key(sec, name)
    IN IF key \in DOMAIN vals THEN vals[key] ELSE default_value

\* mutant: an empty stored value is returned like any other
get_string_EmptyIsValue(vals, sec, name, default_value) ==
    LET key == ToLower(sec) \o <<"=">> \o ToLower(name)
    IN IF key \in DOMAIN vals THEN vals[key] ELSE default_value

\* IniReader::get_string
get_string(vals, sec, name, default_value) ==
    LET value == get(vals, sec, name, <<>>)
    IN IF value = <<>> THEN default_value ELSE value

\* IniReader::has_value
has_value(vals, sec, name) == make_key(sec, name) \in DOMAIN vals

\* IniReader::has_section
has_section(secs, sec) == sec \in secs

\* the characters of the model in the order of their UTF-8 bytes, which is
\* the order of str::cmp
ByteOrder ==
    <<"\t", NL, " ", "#", "+", "-",
      "0", "1", "2", "3", "4", "5", "6", "7", "8", "9", ":", ";", "=",
      "A","B","C","D","E","F","G","H","I","J","K","L","M",
      "N","O","P","Q","R","S","T","U","V","W","X","Y","Z", "[", "]",
      "a","b","c","d","e","f","g","h","i","j","k","l","m",
      "n","o","p","q","r","s","t","u","v","w","x","y","z", BOM>>

ByteRank(c) == CHOOSE i \in 1..Len(ByteOrder) : ByteOrder[i] = c

\* String's Ord: a < b, byte by byte, a proper prefix first
TextLess(a, b) ==
    \E i \in 1..Len(b) :
        /\ i - 1 <= Len(a)
        /\ \A j \in 1..(i - 1) : a[j] = b[j]
        /\ (i > Len(a) \/ ByteRank(a[i]) < ByteRank(b[i]))

RECURSIVE SortTexts(_)
\* Vec<String>::sort on the texts of a set
SortTexts(S) ==
    IF S = {} THEN <<>>
    ELSE LET first == CHOOSE x \in S : \A y \in S \ {x} : TextLess(x, y)
         IN <<first>> \o SortTexts(S \ {first})

RECURSIVE SortTextsDescending(_)
SortTextsDescending(S) ==
    IF S = {} THEN <<>>
    ELSE LET first == CHOOSE x \in S : \A y \in S \ {x} : TextLess(y, x)
         IN <<first>> \o SortTextsDescending(S \ {first})

\* mutant: the names come out in descending order
sections_list_Descending(secs) == SortTextsDescending(secs)

\* IniReader::sections (the method; the field is the variable sections)
sections_list(secs) == SortTexts(secs)

\* str::starts_with(&str)
HasPrefix(s, prefix) ==
    Len(prefix) <= Len(s) /\ SubSeq(s, 1, Len(prefix)) = prefix

\* IniReader::keys
keys(vals, sec) ==
    LET prefix == ToLower(sec) \o <<"=">>
        found == {SubSeq(key, Len(prefix) + 1, Len(key)) :
                     key \in {k \in DOMAIN vals : HasPrefix(k, prefix)}}
    IN SortTexts(found)

\* AdvancedConfig::handle rejects this name
Forbidden == <<"f","o","r","b","i","d","d","e","n">>

\* AdvancedConfig::handle: the rejection message, or none
ConfigAnswer(ev) ==
    IF ev.name = Forbidden
    THEN <<[text |-> "Forbidden key", name |-> ev.name, section |-> ev.section]>>
    ELSE <<>>

\* the rejection message of a consumer that refuses an event
Refusal(ev) == <<[text |-> "Refused", name |-> ev.name, section |-> ev.section]>>

\* the answer of the attached consumer to one event: <<>> for Ok(()), or
\* the message of its Err.  Besides the reader and the recording consumer
\* there are consumers that refuse by the kind of the event: one every
\* section event (empty name), one every key event, one every event.
HandlerAnswer(h, ev) ==
    IF h = "config" THEN ConfigAnswer(ev)
    ELSE IF h = "refuse_sections" THEN (IF ev.name = <<>> THEN Refusal(ev) ELSE <<>>)
    ELSE IF h = "refuse_keys" THEN (IF ev.name # <<>> THEN Refusal(ev) ELSE <<>>)
    ELSE IF h = "refuse_all" THEN Refusal(ev)
    ELSE <<>>

----------------------------------------------------------------------------
(* The typed accessors of the reader *)

\* mutant: the words are matched as written
get_boolean_CaseSensitive(vals, sec, name, default_value) ==
    LET value == get(vals, sec, name, <<>>)
    IN IF value \in {<<"t","r","u","e">>, <<"y","e","s">>, <<"o","n">>, <<"1">>} THEN TRUE
       ELSE IF value \in {<<"f","a","l","s","e">>, <<"n","o">>, <<"o","f","f">>, <<"0">>}
            THEN FALSE
       ELSE default_value

\* IniReader::get_boolean
get_boolean(vals, sec, name, default_value) ==
    LET value == ToLower(get(vals, sec, name, <<>>))
    IN IF value \in {<<"t","r","u","e">>, <<"y","e","s">>, <<"o","n">>, <<"1">>} THEN TRUE
       ELSE IF value \in {<<"f","a","l","s","e">>, <<"n","o">>, <<"o","f","f">>, <<"0">>}
            THEN FALSE
       ELSE default_value

\* An i64 is a sign and a magnitude of four 16-bit limbs, most significant
\* first; zero has no sign.
LimbBase == 65536
SignLimb == 32768

I64(neg, mag) == [neg |-> neg /\ mag # <<0, 0, 0, 0>>, mag |-> mag]

\* the i64 of a small integer
I64Of(n) ==
    LET m == IF n < 0 THEN 0 - n ELSE n
    IN I64(n < 0, <<0, 0, m \div LimbBase, m % LimbBase>>)

\* char::to_digit: the digits of a radix up to 16, in both cases
DigitsLower == <<"0","1","2","3","4","5","6","7","8","9","a","b","c","d","e","f">>
DigitsUpper == <<"0","1","2","3","4","5","6","7","8","9","A","B","C","D","E","F">>

\* char::to_digit, -1 for None
to_digit(c, radix) ==
    LET hit == {i \in 1..radix : DigitsLower[i] = c \/ DigitsUpper[i] = c}
    IN IF hit = {} THEN 0 - 1 ELSE (CHOOSE i \in hit : TRUE) - 1

\* magnitude * radix + digit, with the carry out of 64 bits
MulAdd(mag, radix, d) ==
    LET t0 == mag[4] * radix + d
        t1 == mag[3] * radix + (t0 \div LimbBase)
        t2 == mag[2] * radix + (t1 \div LimbBase)
        t3 == mag[1] * radix + (t2 \div LimbBase)
    IN [mag |-> <<t3 % LimbBase, t2 % LimbBase, t1 % LimbBase, t0 % LimbBase>>,
        carry |-> t3 \div LimbBase]

\* the magnitude is within i64: at most 2^63 - 1, or 2^63 when negative
FitsI64(neg, mag) ==
    \/ mag[1] < SignLimb
    \/ neg /\ mag = <<SignLimb, 0, 0, 0>>

ParseFailure == [ok |-> FALSE]

RECURSIVE ParseDigits(_, _, _, _, _)
\* the digit loop of i64::from_str_radix, with its checked arithmetic
ParseDigits(s, i, radix, neg, mag) ==
    IF i > Len(s) THEN [ok |-> TRUE, value |-> I64(neg, mag)]
    ELSE LET d == to_digit(s[i], radix)
         IN IF d < 0 THEN ParseFailure
            ELSE LET r == MulAdd(mag, radix, d)
                 IN IF r.carry # 0 \/ ~FitsI64(neg, r.mag) THEN ParseFailure
                    ELSE ParseDigits(s, i + 1, radix, neg, r.mag)

\* i64::from_str_radix (and str::parse::<i64> for radix 10)
from_str_radix(s, radix) ==
    IF s = <<>> THEN ParseFailure
    ELSE LET signed == s[1] \in {"+", "-"}
             digits == IF signed THEN Tail(s) ELSE s
         IN IF digits = <<>> THEN ParseFailure
            ELSE ParseDigits(digits, 1, radix, s[1] = "-", <<0, 0, 0, 0>>)

\* mutant: every value is parsed as decimal
get_integer_DecimalOnly(vals, sec, name, default_value) ==
    LET dec == from_str_radix(get(vals, sec, name, <<>>), 10)
    IN IF dec.ok THEN dec.value ELSE default_value

\* IniReader::get_integer
get_integer(vals, sec, name, default_value) ==
    LET value == get(vals, sec, name, <<>>)
        hex == IF HasPrefix(value, <<"0", "x">>) \/ HasPrefix(value, <<"0", "X">>)
               THEN from_str_radix(SubSeq(value, 3, Len(value)), 16)
               ELSE ParseFailure
    IN IF hex.ok THEN hex.value
       ELSE LET dec == from_str_radix(value, 10)
            IN IF dec.ok THEN dec.value ELSE default_value

\* IniReader::get_integer64
get_integer64(vals, sec, name, default_value) ==
    get_integer(vals, sec, name, default_value)

----------------------------------------------------------------------------
(* ini_parse_lines_with_options *)

\* mutant: a line of exactly max_line bytes is refused
TooLong_Inclusive(line, o) == ByteLen(line) >= o.max_line

\* line 140
TooLong(line, o) == ByteLen(line) > o.max_line

\* mutant: the loop never returns early
OnError_NeverStops(o, first, error) ==
    [pc |-> "parsing",
     first_error |-> IF first = NoError THEN error ELSE first,
     result |-> NoError]

\* mutant: a later error replaces the remembered one
OnError_KeepsLast(o, first, error) ==
    IF o.stop_on_first_error
    THEN [pc |-> "done", first_error |-> first, result |-> error]
    ELSE [pc |-> "parsing", first_error |-> error, result |-> NoError]

\* lines 145-150 and 159-164: what the loop does with an error
OnError(o, first, error) ==
    IF o.stop_on_first_error
    THEN [pc |-> "done", first_error |-> first, result |-> error]
    ELSE [pc |-> "parsing",
          first_error |-> IF first = NoError THEN error ELSE first,
          result |-> NoError]

\* lines 169-173: the value returned after the loop
FinalResult(first) == IF first # NoError THEN first ELSE Ok

\* mutant: a refused event leaves the section and the previous key as they
\* were before the line
StateAfterCall_OnlyIfAccepted(r, reply, sec, prev) ==
    IF reply = <<>>
    THEN [section |-> r.section, prev_name |-> r.prev_name]
    ELSE [section |-> sec, prev_name |-> prev]

\* lines 226-230, 265-267 and 279-281: parse_line assigns the section and
\* the previous key before it calls the handler, so they are what the line
\* made them whatever the handler answers
StateAfterCall(r, reply, sec, prev) ==
    [section |-> r.section, prev_name |-> r.prev_name]

\* lines 140-152: the next line is longer than max_line
LineTooLong ==
    /\ pc = "parsing"
    /\ line_number < Len(lines)
    /\ TooLong(lines[line_number + 1], opts)
    /\ LET n == line_number + 1
           error == ParseError(n, "Line too long")
           next == OnError(opts, first_error, error)
       IN /\ line_number' = n
          /\ pc' = next.pc
          /\ first_error' = next.first_error
          /\ result' = next.result
          /\ log' = Append(log, [line |-> n, section |-> section, prev_name |-> prev_name,
                                 call |-> <<>>, error |-> error])
    /\ UNCHANGED <<opts, handler, source, lines, section, prev_name, values, sections, recorded,
                   answer>>

\* lines 154-166: the next line goes through parse_line, which calls the
\* handler for the event it finds
ParseLine ==
    /\ pc = "parsing"
    /\ line_number < Len(lines)
    /\ ~TooLong(lines[line_number + 1], opts)
    /\ LET n == line_number + 1
           r == parse_line(lines[n], section, prev_name, opts, n)
           reply == IF r.call = <<>> THEN <<>> ELSE HandlerAnswer(handler, r.call[1])
           error == IF r.error # NoError THEN r.error
                    ELSE IF reply # <<>> THEN HandlerError(reply[1])
                    ELSE NoError
           next == IF error = NoError
                   THEN [pc |-> "parsing", first_error |-> first_error, result |-> NoError]
                   ELSE OnError(opts, first_error, error)
           after == StateAfterCall(r, reply, section, prev_name)
       IN /\ line_number' = n
          /\ section' = after.section
          /\ prev_name' = after.prev_name
          /\ IF r.call # <<>> /\ handler = "reader"
             THEN /\ sections' = ReaderSections(sections, r.call[1].section)
                  /\ values' = ReaderValues(values, r.call[1].section, r.call[1].name,
                                            r.call[1].value)
             ELSE UNCHANGED <<sections, values>>
          /\ IF r.call # <<>> /\ handler = "config"
             THEN recorded' = Append(recorded, r.call[1])
             ELSE UNCHANGED recorded
          /\ pc' = next.pc
          /\ first_error' = next.first_error
          /\ result' = next.result
          /\ log' = Append(log, [line |-> n, section |-> section, prev_name |-> prev_name,
                                 call |-> r.call, error |-> error])
    /\ UNCHANGED <<opts, handler, source, lines, answer>>

\* lines 169-173: the input is exhausted
Finish ==
    /\ pc = "parsing"
    /\ line_number = Len(lines)
    /\ pc' = "done"
    /\ result' = FinalResult(first_error)
    /\ UNCHANGED <<opts, handler, source, lines, line_number, section, prev_name, first_error,
                   values, sections, recorded, answer, log>>

\* lines 140-154 for one line: the length test, then parse_line
LineOutcome(raw, sec, prev, o, n) ==
    IF TooLong(raw, o)
    THEN Outcome(sec, prev, <<>>, ParseError(n, "Line too long"))
    ELSE parse_line(raw, sec, prev, o, n)

RECURSIVE ParseLoop(_, _, _, _, _, _, _, _)
\* lines 137-173: the loop from line n on, as a function of the lines: the
\* events handed to the consumer and the value returned
ParseLoop(ls, n, sec, prev, first, events, o, h) ==
    IF n > Len(ls) THEN [events |-> events, result |-> FinalResult(first)]
    ELSE LET r == LineOutcome(ls[n], sec, prev, o, n)
             reply == IF r.call = <<>> THEN <<>> ELSE HandlerAnswer(h, r.call[1])
             error == IF r.error # NoError THEN r.error
                      ELSE IF reply # <<>> THEN HandlerError(reply[1])
                      ELSE NoError
             next == IF error = NoError
                     THEN [pc |-> "parsing", first_error |-> first, result |-> NoError]
                     ELSE OnError(o, first, error)
             after == StateAfterCall(r, reply, sec, prev)
         IN IF next.pc = "done"
            THEN [events |-> events \o r.call, result |-> next.result]
            ELSE ParseLoop(ls, n + 1, after.section, after.prev_name, next.first_error,
                           events \o r.call, o, h)

\* ini_parse_lines_with_options as a function of its arguments
ini_parse_lines_with_options(ls, o, h) ==
    ParseLoop(ls, 1, <<>>, <<>>, NoError, <<>>, o, h)

----------------------------------------------------------------------------
(* Inputs *)

\* ParseOptions::default
DefaultOptions ==
    [allow_multiline |-> FALSE, allow_bom |-> TRUE, allow_inline_comments |-> TRUE,
     inline_comment_prefixes |-> <<";">>, start_comment_prefixes |-> <<";", "#">>,
     stop_on_first_error |-> FALSE, call_handler_on_new_section |-> FALSE,
     allow_no_value |-> FALSE, max_line |-> 200]

\* the max_line of the driver specification's inputs
PoolMaxLine == 11

\* the lines the driver specification builds its inputs from
PoolLines ==
    { <<>>,
      <<"#", "c">>,
      <<"[", "s", "]">>,
      <<"[", "S", "=", "k", "]">>,
      <<"[", "t">>,
      <<"k", "=", "1">>,
      <<" ", "3">>,
      Forbidden \o <<"=", "1">>,
      Forbidden \o <<"=", "1", "2">> }

SeqsUpTo(S, n) == UNION {[1..k -> S] : k \in 0..n}

PoolOptions ==
    {[DefaultOptions EXCEPT !.stop_on_first_error = st, !.allow_multiline = ml,
                            !.max_line = PoolMaxLine] :
        st \in BOOLEAN, ml \in BOOLEAN}

\* the lines are given as they are, not split from a text
GivenLines == [path |-> "lines", text |-> <<>>]

\* the state at the start of ini_parse_lines_with_options (lines 132-135),
\* with a fresh consumer
StartFrom(src, input, o, h) ==
    /\ source = src
    /\ lines = input
    /\ opts = o
    /\ handler = h
    /\ pc = "parsing"
    /\ line_number = 0
    /\ section = <<>>
    /\ prev_name = <<>>
    /\ first_error = NoError
    /\ result = NoError
    /\ values = <<>>
    /\ sections = {}
    /\ recorded = <<>>
    /\ answer = NoAnswer
    /\ log = <<>>

Start(input, o, h) == StartFrom(GivenLines, input, o, h)

Init ==
    \E input \in SeqsUpTo(PoolLines, MaxLines), o \in PoolOptions,
       h \in {"reader", "config"} : Start(input, o, h)

Next == LineTooLong \/ ParseLine \/ Finish

Spec == Init /\ [][Next]_vars

----------------------------------------------------------------------------
(* The single-line specification: every short line over LineChars and a    *)
(* few longer ones, parsed as the first line of an input or right after a  *)
(* key line                                                                *)

LineChars == {" ", ";", "[", "]", "=", ":", "a"}

KeyLine == <<"k", "=", "a">>

\* longer lines tried besides every line of up to MaxStrLen characters
LongLines ==
    { <<" ", "a", " ", ";">>,
      <<" ", " ", "a", ";", "a">>,
      <<" ", "[", "a", "]">>,
      <<"[", "a", " ", "]">>,
      <<"[", "a", " ", ";">>,
      <<"[", "a", " ", ";", "]">>,
      <<"[", "a", "]", " ", ";", "a">>,
      <<"a", ":", "=", "a">>,
      <<"a", " ", "=", " ", "a", ":", "a">>,
      <<"a", ";", "=", "a">>,
      <<"=", ";", " ", ";">>,
      <<"a", "=", "a", ";", "a", " ", ";", "a">>,
      <<"a", " ", ";", "=">>,
      <<"a", " ", ";", "a">> }

LineOptions ==
    {[DefaultOptions EXCEPT !.allow_multiline = ml, !.allow_inline_comments = ic,
                            !.allow_no_value = nv] :
        ml \in BOOLEAN, ic \in BOOLEAN, nv \in BOOLEAN}
    \cup
    {[DefaultOptions EXCEPT !.allow_multiline = ml, !.allow_inline_comments = ic,
                            !.call_handler_on_new_section = TRUE] :
        ml \in BOOLEAN, ic \in BOOLEAN}
    \cup
    {[DefaultOptions EXCEPT !.allow_multiline = ml, !.allow_inline_comments = ic,
                            !.stop_on_first_error = TRUE] :
        ml \in BOOLEAN, ic \in BOOLEAN}

InitLine ==
    \E l \in SeqsUpTo(LineChars, MaxStrLen) \cup LongLines,
       prefix \in {<<>>, <<KeyLine>>},
       o \in LineOptions : Start(prefix \o <<l>>, o, "reader")

NextLine == ParseLine \/ Finish

SpecLine == InitLine /\ [][NextLine]_vars

----------------------------------------------------------------------------
(* The reader specification: IniHandler::handle called directly on a fresh *)
(* IniReader, with any events                                              *)

CallSections == {<<>>, <<"s">>, <<"S">>}
CallNames == {<<>>, <<"k">>, <<"K">>}
CallValues == {<<>>, <<"v">>}

\* one call of IniReader::handle
HandleCall ==
    /\ pc = "calls"
    /\ Len(log) < MaxCalls
    /\ \E sec \in CallSections, name \in CallNames, value \in CallValues :
          /\ sections' = ReaderSections(sections, sec)
          /\ values' = ReaderValues(values, sec, name, value)
          /\ log' = Append(log, [line |-> 0, section |-> <<>>, prev_name |-> <<>>,
                                 call |-> <<Event(sec, name, value)>>, error |-> NoError])
    /\ UNCHANGED <<opts, handler, source, lines, pc, line_number, section, prev_name,
                   first_error, result, recorded, answer>>

InitReader ==
    /\ source = GivenLines
    /\ lines = <<>>
    /\ opts = DefaultOptions
    /\ handler = "reader"
    /\ pc = "calls"
    /\ line_number = 0
    /\ section = <<>>
    /\ prev_name = <<>>
    /\ first_error = NoError
    /\ result = NoError
    /\ values = <<>>
    /\ sections = {}
    /\ recorded = <<>>
    /\ answer = NoAnswer
    /\ log = <<>>

NextReader == HandleCall

SpecReader == InitReader /\ [][NextReader]_vars

----------------------------------------------------------------------------
(* The accessor specification: a reader that holds one key, s.k, with any  *)
(* of the texts below, asked through get_boolean and get_integer           *)

\* the longest text of the exhaustive part of the stored values
MaxValueLen == 3

ValueChars == {"0", "1", "x", "A", "g", "-", "+"}

\* words and near-words of get_boolean
BooleanTexts ==
    { <<"t", "r", "u", "e">>,
      <<"T", "R", "U", "E">>,
      <<"T", "r", "u", "e">>,
      <<"t", "R", "u", "E">>,
      <<"y", "e", "s">>,
      <<"Y", "E", "S">>,
      <<"o", "n">>,
      <<"O", "n">>,
      <<"O", "N">>,
      <<"f", "a", "l", "s", "e">>,
      <<"F", "A", "L", "S", "E">>,
      <<"n", "o">>,
      <<"N", "o">>,
      <<"o", "f", "f">>,
      <<"O", "F", "F">>,
      <<"t", "r", "u">>,
      <<"t", "r", "u", "e", "e">>,
      <<"y">>,
      <<"2">>,
      <<"e", "n", "a", "b", "l", "e", "d">>,
      <<"t", "r", "u", "e", " ">>,
      <<"1", "\n", "1">>,
      <<" ", "o", "n">> }

\* numbers and near-numbers of get_integer, the i64 limits among them
NumberTexts ==
    { <<"0", "x", "1", "A">>,
      <<"0", "X", "1", "a">>,
      <<"0", "x", "-", "1", "A">>,
      <<"0", "x", "+", "1", "A">>,
      <<"-", "0", "x", "1">>,
      <<"0", "x", "f", "g">>,
      <<"0", "x", " ", "1">>,
      <<"1", " ", "2">>,
      <<" ", "1", "2">>,
      <<"1", "2", " ">>,
      <<"1", "-", "2">>,
      <<"-", "-", "1">>,
      <<"0", "x", "0", "x", "1">>,
      <<"1", "\n", "2">>,
      <<"4", "2", "9", "4", "9", "6", "7", "2", "9", "6">>,
      <<"-", "1", "0", "0", "0", "0", "0", "0", "0", "0", "0", "0", "0", "0">>,
      <<"2", "8", "1", "4", "7", "4", "9", "7", "6", "7", "1", "0", "6", "5", "6">>,
      <<"0", "x", "1", "2", "3", "4", "5", "6", "7", "8", "9", "A", "b", "C", "d", "E", "f">>,
      <<"0", "X", "-", "f", "e", "d", "c", "b", "a", "9", "8", "7", "6">>,
      <<"6", "5", "5", "3", "6", "0", "0", "0", "0", "0", "0">>,
      <<"1", "2", "3", "4", "5">>,
      <<"-", "1", "2", "3", "4", "5">>,
      <<"+", "0", "0", "1", "2", "3">>,
      <<"0", "x", "0", "0", "1", "2", "A", "b">>,
      <<"1", "2", "3", "4", "5", "6", "7">>,
      <<"-", "7", "6", "5", "4", "3", "2", "1">>,
      <<"0", "x", "F", "f", "F", "f", "F", "f", "F">>,
      <<"9", "2", "2", "3", "3", "7", "2", "0", "3", "6", "8", "5", "4", "7", "7", "5", "8", "0", "7">>,
      <<"9", "2", "2", "3", "3", "7", "2", "0", "3", "6", "8", "5", "4", "7", "7", "5", "8", "0", "8">>,
      <<"-", "9", "2", "2", "3", "3", "7", "2", "0", "3", "6", "8", "5", "4", "7", "7", "5", "8", "0", "8">>,
      <<"-", "9", "2", "2", "3", "3", "7", "2", "0", "3", "6", "8", "5", "4", "7", "7", "5", "8", "0", "9">>,
      <<"+", "9", "2", "2", "3", "3", "7", "2", "0", "3", "6", "8", "5", "4", "7", "7", "5", "8", "0", "7">>,
      <<"0", "0", "0", "9", "2", "2", "3", "3", "7", "2", "0", "3", "6", "8", "5", "4", "7", "7", "5", "8", "0", "7">>,
      <<"0", "x", "7", "F", "F", "F", "F", "F", "F", "F", "F", "F", "F", "F", "F", "F", "F", "F">>,
      <<"0", "x", "8", "0", "0", "0", "0", "0", "0", "0", "0", "0", "0", "0", "0", "0", "0", "0">>,
      <<"0", "x", "-", "8", "0", "0", "0", "0", "0", "0", "0", "0", "0", "0", "0", "0", "0", "0", "0">>,
      <<"0", "x", "-", "8", "0", "0", "0", "0", "0", "0", "0", "0", "0", "0", "0", "0", "0", "0", "1">>,
      <<"0", "x", "F", "F", "F", "F", "F", "F", "F", "F", "F", "F", "F", "F", "F", "F", "F", "F">>,
      <<"0", "x", "1", "0", "0", "0", "0", "0", "0", "0", "0", "0", "0", "0", "0", "0", "0", "0", "0">>,
      <<"1", "8", "4", "4", "6", "7", "4", "4", "0", "7", "3", "7", "0", "9", "5", "5", "1", "6", "1", "6">>,
      <<"9", "9", "9", "9", "9", "9", "9", "9", "9", "9", "9", "9", "9", "9", "9", "9", "9", "9", "9", "9">>,
      <<"0", "x", "0", "0", "0", "0", "0", "0", "0", "0", "0", "0", "0", "0", "0", "0", "0", "0", "0", "0", "1", "0">> }

TypedValues == SeqsUpTo(ValueChars, MaxValueLen) \cup BooleanTexts \cup NumberTexts

AskSections == {<<"s">>}
AskNames == {<<"k">>, <<"K">>, <<"x">>}
IntegerDefaults == {I64Of(0 - 1), I64Of(7)}

InitTyped ==
    \E v \in TypedValues :
        /\ source = GivenLines
        /\ lines = <<>>
        /\ opts = DefaultOptions
        /\ handler = "reader"
        /\ pc = "built"
        /\ line_number = 0
        /\ section = <<>>
        /\ prev_name = <<>>
        /\ first_error = NoError
        /\ result = NoError
        /\ values = ReaderValues(<<>>, <<"s">>, <<"k">>, v)
        /\ sections = ReaderSections({}, <<"s">>)
        /\ recorded = <<>>
        /\ answer = NoAnswer
        /\ log = <<[line |-> 0, section |-> <<>>, prev_name |-> <<>>,
                    call |-> <<Event(<<"s">>, <<"k">>, v)>>, error |-> NoError]>>

\* one call of get_boolean on the built reader
AskBoolean ==
    /\ pc = "built"
    /\ \E sec \in AskSections, name \in AskNames, d \in BOOLEAN :
          answer' = [op |-> "get_boolean", section |-> sec, name |-> name, default |-> d,
                     result |-> get_boolean(values, sec, name, d)]
    /\ UNCHANGED <<opts, handler, source, lines, pc, line_number, section, prev_name,
                   first_error, result, values, sections, recorded, log>>

\* one call of get_integer or get_integer64 on the built reader
AskInteger ==
    /\ pc = "built"
    /\ \E sec \in AskSections, name \in AskNames, d \in IntegerDefaults :
          \/ answer' = [op |-> "get_integer", section |-> sec, name |-> name,
                        default |-> d, result |-> get_integer(values, sec, name, d)]
          \/ answer' = [op |-> "get_integer64", section |-> sec, name |-> name,
                        default |-> d, result |-> get_integer64(values, sec, name, d)]
    /\ UNCHANGED <<opts, handler, source, lines, pc, line_number, section, prev_name,
                   first_error, result, values, sections, recorded, log>>

NextTyped == AskBoolean \/ AskInteger

SpecTyped == InitTyped /\ [][NextTyped]_vars

----------------------------------------------------------------------------
(* The byte order mark specification: inputs whose first line is any short *)
(* line, with or without the mark in front, under several max_line values, *)
(* optionally followed by a line that starts with the mark                 *)

\* the longest first line, not counting the mark
MaxBomLen == 3

BomChars == {"a", "=", "[", "]", " "}

\* a second line that starts with the mark
MarkedLine == <<BOM, "a", "=", "a">>

\* the max_line values tried: below, at and above the lengths of the lines
BomMaxLines == {2, 4, 200}

BomOptions ==
    {[DefaultOptions EXCEPT !.allow_bom = ab, !.max_line = ml] :
        ab \in BOOLEAN, ml \in BomMaxLines}

InitBom ==
    \E l \in SeqsUpTo(BomChars, MaxBomLen), mark \in {<<>>, <<BOM>>},
       rest \in {<<>>, <<MarkedLine>>}, o \in BomOptions :
        Start(<<mark \o l>> \o rest, o, "reader")

NextBom == LineTooLong \/ ParseLine \/ Finish

SpecBom == InitBom /\ [][NextBom]_vars

----------------------------------------------------------------------------
(* The input path specification: every short text, split into lines by the *)
(* string path or by the reader path, then parsed                          *)

\* the longest text
MaxTextLen == 6

TextChars == {"k", "=", " ", NL}

\* the first line of a text that is not empty: the characters before the
\* first line terminator, or all of them
FirstLine(text) ==
    IF Contains(text, NL)
    THEN SubSeq(text, 1, (CHOOSE i \in 1..Len(text) :
                             text[i] = NL /\ \A j \in 1..(i - 1) : text[j] # NL) - 1)
    ELSE text

\* the text after the first line and its terminator
AfterFirstLine(text) == SubSeq(text, Len(FirstLine(text)) + 2, Len(text))

RECURSIVE string_lines(_)
\* str::lines (line 105): the lines of a text, each without its terminator
string_lines(text) ==
    IF text = <<>> THEN <<>>
    ELSE <<FirstLine(text)>> \o string_lines(AfterFirstLine(text))

RECURSIVE reader_lines(_)
\* lines 118-121: read_line until the end of the text, each line pushed
\* after trim_end, which takes the terminator and all trailing whitespace
reader_lines(text) ==
    IF text = <<>> THEN <<>>
    ELSE LET line == IF Contains(text, NL) THEN FirstLine(text) \o <<NL>>
                     ELSE FirstLine(text)
         IN <<TrimEnd(line)>> \o reader_lines(AfterFirstLine(text))

\* the lines a path hands to ini_parse_lines_with_options
PathLines(path, text) ==
    IF path = "string" THEN string_lines(text) ELSE reader_lines(text)

\* the max_line values tried: one that short lines exceed, and the default
PathMaxLines == {2, 200}

PathOptions ==
    {[DefaultOptions EXCEPT !.allow_multiline = TRUE, !.allow_inline_comments = ic,
                            !.max_line = ml] :
        ic \in BOOLEAN, ml \in PathMaxLines}

InitPaths ==
    \E text \in SeqsUpTo(TextChars, MaxTextLen), path \in {"string", "reader"},
       o \in PathOptions :
        StartFrom([path |-> path, text |-> text], PathLines(path, text), o, "reader")

NextPaths == LineTooLong \/ ParseLine \/ Finish

SpecPaths == InitPaths /\ [][NextPaths]_vars

----------------------------------------------------------------------------
(* The constructor specification: IniReader::from_string_with_options and  *)
(* IniReader::from_reader on texts of a few lines, up to what they return  *)

ConstructorLines ==
    { <<"[", "s", "]">>,
      <<"[", "t">>,
      <<"k", "=", "1">>,
      <<"x">>,
      <<" ", "3">>,
      Forbidden \o <<"=", "1", "2">> }

RECURSIVE TextOf(_)
\* the text made of given lines, each with its line terminator
TextOf(ls) == IF ls = <<>> THEN <<>> ELSE ls[1] \o <<NL>> \o TextOf(Tail(ls))

\* mutant: a faulty parse returns the reader with the error recorded in it
from_string_with_options_KeepsReader(res, vals, secs) ==
    LET ini_reader == [values |-> vals, sections |-> secs, error |-> NoError]
    IN IF res = Ok
       THEN [ok |-> TRUE, reader |-> <<ini_reader>>, error |-> NoError]
       ELSE [ok |-> TRUE, reader |-> <<[ini_reader EXCEPT !.error = res]>>, error |-> NoError]

\* reader.rs lines 57-63 (and 35-41 of from_reader): what the constructor
\* returns for the result of the parse and the reader the parse has filled:
\* Ok with the reader, whose error field is None, or Err with the error,
\* the reader (whose error field was just set) being dropped
from_string_with_options(res, vals, secs) ==
    LET ini_reader == [values |-> vals, sections |-> secs, error |-> NoError]
    IN IF res = Ok
       THEN [ok |-> TRUE, reader |-> <<ini_reader>>, error |-> NoError]
       ELSE [ok |-> FALSE, reader |-> <<>>, error |-> res]

\* IniReader::parse_error
parse_error(reader) == reader.error

\* the constructor returns
Construct ==
    /\ pc = "done"
    /\ pc' = "returned"
    /\ answer' = [op |-> IF source.path = "string" THEN "from_string_with_options"
                         ELSE "from_reader",
                  returned |-> from_string_with_options(result, values, sections)]
    /\ UNCHANGED <<opts, handler, source, lines, line_number, section, prev_name,
                   first_error, result, values, sections, recorded, log>>

\* from_string_with_options with the options tried, from_reader with the
\* defaults
InitConstruct ==
    \E input \in SeqsUpTo(ConstructorLines, MaxLines) :
        \/ \E o \in PoolOptions :
              StartFrom([path |-> "string", text |-> TextOf(input)],
                        string_lines(TextOf(input)), o, "reader")
        \/ StartFrom([path |-> "reader", text |-> TextOf(input)],
                     reader_lines(TextOf(input)), DefaultOptions, "reader")

NextConstruct == LineTooLong \/ ParseLine \/ Finish \/ Construct

SpecConstruct == InitConstruct /\ [][NextConstruct]_vars

----------------------------------------------------------------------------
(* The refusing-consumer specification: inputs of headers, keys and an     *)
(* indented line, parsed for a consumer that refuses every section event,  *)
(* every key event, or every event                                         *)

RefusedLines ==
    { <<"[", "s", "]">>,
      <<"[", "t", "]">>,
      <<"[", "t">>,
      <<"k", "=", "1">>,
      <<"j", "=", "2">>,
      <<" ", "3">> }

InitRefuse ==
    \E input \in SeqsUpTo(RefusedLines, MaxLines), o \in PoolOptions,
       h \in {"refuse_sections", "refuse_keys", "refuse_all"} : Start(input, o, h)

NextRefuse == ParseLine \/ Finish

SpecRefuse == InitRefuse /\ [][NextRefuse]_vars

----------------------------------------------------------------------------
(* Properties *)

\* the processed lines that raised an error, and those that called the handler
FaultLines == {i \in 1..Len(log) : log[i].error # NoError}
CallLines == {i \in 1..Len(log) : log[i].call # <<>>}

RECURSIVE CallsOf(_)
\* the handler calls of a history, in order
CallsOf(h) ==
    IF h = <<>> THEN <<>>
    ELSE CallsOf(SubSeq(h, 1, Len(h) - 1)) \o h[Len(h)].call

\* C1: with stop_on_first_error the parse ends at the first line that raises
\* an error (a ParseError of any kind or a rejection by the consumer): no
\* line after it is processed, so the consumer is not called again, and the
\* parse has returned that error.
C1_StrictStopsAtFirstFault ==
    opts.stop_on_first_error =>
        /\ \A i \in FaultLines :
              /\ i = Len(log)
              /\ log[i].line = i
              /\ line_number = i
              /\ pc = "done"
              /\ result = log[i].error
        /\ handler = "config" => recorded = CallsOf(log)
        /\ (pc = "done" /\ FaultLines = {}) => (result = Ok /\ line_number = Len(lines))

\* a strict parse that a consumer rejection ended before the last line
C1_Witness ==
    /\ opts.stop_on_first_error
    /\ pc = "done"
    /\ Len(log) < Len(lines)
    /\ log[Len(log)].error.kind = "HandlerError"
    /\ result.kind = "HandlerError"

\* C2: without stop_on_first_error every line is processed, the consumer has
\* received the event of every line that has one (also after an error), and
\* the parse returns Ok when no line raised an error and otherwise the error
\* of the earliest line that raised one.
C2_LenientFirstErrorWins ==
    ~opts.stop_on_first_error =>
        /\ pc = "done" =>
              /\ line_number = Len(lines)
              /\ Len(log) = Len(lines)
              /\ result = IF FaultLines = {} THEN Ok ELSE log[Min(FaultLines)].error
        /\ \A i \in 1..Len(log) : log[i].line = i
        /\ handler = "config" => recorded = CallsOf(log)
        /\ handler = "reader" =>
              \A i \in CallLines :
                  LET ev == log[i].call[1]
                  IN /\ ev.section # <<>> => ev.section \in sections
                     /\ ev.name # <<>> => make_key(ev.section, ev.name) \in DOMAIN values

\* a lenient parse with two different errors and an event delivered after the
\* first of them
C2_Witness ==
    /\ ~opts.stop_on_first_error
    /\ pc = "done"
    /\ \E i, j, k \in 1..Len(log) :
          /\ i < j /\ i < k
          /\ log[i].error # NoError
          /\ log[j].error # NoError
          /\ log[i].error.kind # log[j].error.kind
          /\ log[k].call # <<>>
          /\ log[k].error = NoError
    /\ result = log[Min(FaultLines)].error

\* two texts equal up to the case of their letters
SameIgnoringCase(a, b) == ToLower(a) = ToLower(b)

RECURSIVE ValuesFor(_, _, _)
\* the values of the calls of a history that store to (sec, name), in order
ValuesFor(h, sec, name) ==
    IF h = <<>> THEN <<>>
    ELSE LET call == h[Len(h)].call
             rest == ValuesFor(SubSeq(h, 1, Len(h) - 1), sec, name)
         IN IF /\ call # <<>>
               /\ call[1].name # <<>>
               /\ SameIgnoringCase(call[1].section, sec)
               /\ SameIgnoringCase(call[1].name, name)
            THEN Append(rest, call[1].value)
            ELSE rest

RECURSIVE JoinLines(_)
\* texts joined with one newline between consecutive texts
JoinLines(ts) ==
    IF Len(ts) = 1 THEN ts[1]
    ELSE JoinLines(SubSeq(ts, 1, Len(ts) - 1)) \o <<NL>> \o ts[Len(ts)]

\* C3: after any sequence of handle calls, a key (section and name compared
\* without regard to case) is stored exactly when some call named it, and its
\* value is the values of all those calls in call order with one newline
\* between consecutive values: no store overwrites.
C3_StoreAppends ==
    \A sec \in CallSections, name \in CallNames \ {<<>>} :
        LET vs == ValuesFor(log, sec, name)
        IN IF vs = <<>>
           THEN ~has_value(values, sec, name)
           ELSE /\ has_value(values, sec, name)
                /\ get(values, sec, name, <<>>) = JoinLines(vs)

\* one key stored three times, under two casings, with different values
C3_Witness ==
    /\ Len(log) = 3
    /\ \A i \in 1..3 : SameIgnoringCase(log[i].call[1].name, <<"k">>)
                       /\ SameIgnoringCase(log[i].call[1].section, <<"s">>)
    /\ log[1].call[1].section # log[2].call[1].section
    /\ log[1].call[1].name # log[3].call[1].name
    /\ get(values, <<"s">>, <<"k">>, <<>>) = <<"v", NL, NL, "v">>

\* C9: for every key stored by a call, under whatever casing, get,
\* get_string and has_value answer the same for every casing of the section
\* and name arguments.
C9_LookupIgnoresCase ==
    \A i \in 1..Len(log) :
        LET ev == log[i].call[1]
        IN ev.name # <<>> =>
             \A sec \in CallSections, name \in CallNames, d \in {<<>>, <<"d">>} :
                 (SameIgnoringCase(sec, ev.section) /\ SameIgnoringCase(name, ev.name)) =>
                     /\ has_value(values, sec, name)
                     /\ get(values, sec, name, d) = get(values, ev.section, ev.name, d)
                     /\ get_string(values, sec, name, d)
                          = get_string(values, ev.section, ev.name, d)

\* a key declared in upper case is found in lower case and conversely
C9_Witness ==
    /\ \E i \in 1..Len(log) : log[i].call[1] = Event(<<"S">>, <<"K">>, <<"v">>)
    /\ \A i \in 1..Len(log) : log[i].call[1].name \in {<<>>, <<"K">>}
    /\ get(values, <<"s">>, <<"k">>, <<"d">>) = <<"v">>
    /\ get_string(values, <<"S">>, <<"k">>, <<"d">>) = <<"v">>
    /\ has_value(values, <<"s">>, <<"K">>)

\* C10 (as claimed): the section set holds lowercased names, holds no two
\* names that differ only by case, and has_section answers the same for every
\* casing of a registered section name.
C10_SectionsCaseNormalized ==
    /\ \A sec \in sections : sec = ToLower(sec)
    /\ \A a, b \in sections : SameIgnoringCase(a, b) => a = b
    /\ \A a \in sections, b \in CallSections :
          SameIgnoringCase(a, b) => has_section(sections, b)

\* the section part of a stored key: the text before its first '='
SectionPart(key) ==
    LET at == CHOOSE i \in 1..Len(key) :
                  key[i] = "=" /\ \A j \in 1..(i - 1) : key[j] # "="
    IN SubSeq(key, 1, at - 1)

\* C25 (as claimed): after any sequence of handle calls, every stored key
\* whose section part is not empty has that section in the section set.
C25_KeySectionsRegistered ==
    \A key \in DOMAIN values :
        SectionPart(key) # <<>> => SectionPart(key) \in sections

----------------------------------------------------------------------------
(* Properties of single lines.  They speak of entry i of the history: the  *)
(* line as the input holds it, the section and previous key before it, the *)
(* handler call made for it, and the section and previous key after it.    *)

RawLine(i) == lines[log[i].line]

\* the line without the byte order mark that line 1 may start with
SeenLine(i) ==
    IF log[i].line = 1 /\ opts.allow_bom /\ RawLine(i) # <<>> /\ RawLine(i)[1] = BOM
    THEN SubSeq(RawLine(i), 2, Len(RawLine(i)))
    ELSE RawLine(i)

\* the positions of a text that hold no whitespace
Inked(t) == {j \in 1..Len(t) : ~IsWhitespace(t[j])}

\* a text without its leading and trailing whitespace
Stripped(t) == IF Inked(t) = {} THEN <<>> ELSE SubSeq(t, Min(Inked(t)), Max(Inked(t)))

\* the leading whitespace of a text that is not blank
Indent(t) == SubSeq(t, 1, Min(Inked(t)) - 1)

Content(i) == Stripped(SeenLine(i))

\* parse_line is called for the line
Classified(i) == ByteLen(RawLine(i)) <= opts.max_line

BlankLine(i) == Content(i) = <<>>

CommentLine(i) ==
    /\ ~BlankLine(i)
    /\ \E j \in 1..Len(opts.start_comment_prefixes) :
          Content(i)[1] = opts.start_comment_prefixes[j]

\* the line starts with whitespace while a previous key is active
IndentedUnderKey(i) ==
    /\ log[i].prev_name # <<>>
    /\ SeenLine(i) # <<>>
    /\ IsWhitespace(SeenLine(i)[1])

\* the positions of a text where an inline comment starts: a comment
\* character that follows whitespace
CommentStarts(t) ==
    {j \in 2..Len(t) : /\ IsWhitespace(t[j - 1])
                       /\ \E q \in 1..Len(opts.inline_comment_prefixes) :
                             t[j] = opts.inline_comment_prefixes[q]}

\* a text up to its inline comment, stripped
WithoutComment(t) ==
    IF CommentStarts(t) = {} THEN Stripped(t)
    ELSE Stripped(SubSeq(t, 1, Min(CommentStarts(t)) - 1))

\* the section and previous key after entry i
SectionAfter(i) == IF i < Len(log) THEN log[i + 1].section ELSE section
PrevNameAfter(i) == IF i < Len(log) THEN log[i + 1].prev_name ELSE prev_name

\* the line is a continuation candidate: classified, neither blank nor a
\* comment, indented while a previous key is active
ContinuationCandidate(i) ==
    /\ Classified(i)
    /\ ~BlankLine(i)
    /\ ~CommentLine(i)
    /\ IndentedUnderKey(i)

\* an event whose value starts with whitespace: only a continuation makes one
IndentedValue(i) ==
    /\ log[i].call # <<>>
    /\ log[i].call[1].value # <<>>
    /\ IsWhitespace(log[i].call[1].value[1])

\* C4: with allow_multiline, every line handed to parse_line that is neither
\* blank nor a comment and starts with whitespace while a previous key is
\* active calls the handler with the current section, the previous key and a
\* value that is the line's own indentation followed by its content (without
\* the inline comment when those are enabled); section and previous key stay
\* as they were, and the reader's value of the key ends with a newline and
\* that value.  Without allow_multiline no event carries an indented value.
C4_ContinuationKeepsIndent ==
    \A i \in 1..Len(log) :
        /\ (opts.allow_multiline /\ ContinuationCandidate(i)) =>
              /\ log[i].call # <<>>
              /\ log[i].error = NoError
              /\ log[i].call[1].section = log[i].section
              /\ log[i].call[1].name = log[i].prev_name
              /\ log[i].call[1].value =
                    Indent(SeenLine(i)) \o
                    (IF opts.allow_inline_comments
                     THEN WithoutComment(Content(i))
                     ELSE SubSeq(SeenLine(i), Len(Indent(SeenLine(i))) + 1,
                                 Len(SeenLine(i))))
              /\ Len(log[i].call[1].value) > Len(Indent(SeenLine(i)))
              /\ SectionAfter(i) = log[i].section
              /\ PrevNameAfter(i) = log[i].prev_name
              /\ LET vs == ValuesFor(SubSeq(log, 1, i), log[i].section, log[i].prev_name)
                     before == ValuesFor(SubSeq(log, 1, i - 1), log[i].section,
                                         log[i].prev_name)
                 IN /\ vs = Append(before, log[i].call[1].value)
                    /\ (i = Len(log) /\ before # <<>>) =>
                          get(values, log[i].section, log[i].prev_name, <<>>)
                            = JoinLines(before) \o <<NL>> \o log[i].call[1].value
        /\ ~opts.allow_multiline => ~IndentedValue(i)

\* an indented line with an inline comment, appended with its indentation to
\* the value of the key of the line before
C4_Witness ==
    /\ opts.allow_multiline
    /\ opts.allow_inline_comments
    /\ Len(log) = 2
    /\ RawLine(2) = <<" ", "a", " ", ";">>
    /\ log[2].call = <<Event(<<>>, <<"k">>, <<" ", "a">>)>>
    /\ prev_name = <<"k">>
    /\ get(values, <<>>, <<"k">>, <<>>) = <<"a", NL, " ", "a">>

\* the line reaches the section-header step of parse_line
HeaderLine(i) ==
    /\ Classified(i)
    /\ ~BlankLine(i)
    /\ Content(i)[1] = "["
    /\ ~(opts.allow_multiline /\ IndentedUnderKey(i))

\* C5: every accepted section header (a header line that raises no error)
\* sets the current section to a non-empty name, which is the text between
\* '[' and the first ']' when no inline comment starts before that ']',
\* resets the previous key, and calls the handler once with that section and
\* an empty name and value, whatever call_handler_on_new_section is; the
\* reader registers the section.
C5_HeaderSetsSectionAndCalls ==
    \A i \in 1..Len(log) :
        (HeaderLine(i) /\ log[i].error = NoError) =>
            LET name == SectionAfter(i)
                t == Content(i)
                closes == {j \in 2..Len(t) : t[j] = "]"}
                hidden == IF opts.allow_inline_comments
                          THEN {j \in CommentStarts(t) : closes = {} \/ j < Min(closes)}
                          ELSE {}
            IN /\ name # <<>>
               /\ hidden = {} => (closes # {} /\ name = SubSeq(t, 2, Min(closes) - 1))
               /\ PrevNameAfter(i) = <<>>
               /\ log[i].call = <<Event(name, <<>>, <<>>)>>
               /\ (handler = "reader" /\ i = Len(log)) => has_section(sections, name)

\* a header accepted while a key was active and call_handler_on_new_section
\* is off
C5_Witness ==
    /\ ~opts.call_handler_on_new_section
    /\ Len(log) = 2
    /\ HeaderLine(2)
    /\ RawLine(2) = <<"[", "a", " ", "]">>
    /\ log[2].prev_name = <<"k">>
    /\ log[2].call = <<Event(<<"a", " ">>, <<>>, <<>>)>>
    /\ section = <<"a", " ">>
    /\ prev_name = <<>>
    /\ <<"a", " ">> \in sections

\* C6 (as claimed, for the lines that reach the section-header step): a line
\* whose content begins with '[' and holds no ']' raises a ParseError that
\* carries the line's 1-based position, and no handler call is made for it.
C6_UnclosedHeaderIsParseError ==
    \A i \in 1..Len(log) :
        (HeaderLine(i) /\ \A j \in 1..Len(Content(i)) : Content(i)[j] # "]") =>
            /\ log[i].error.kind = "ParseError"
            /\ log[i].error = ParseError(i, "Missing ']' in section header")
            /\ log[i].call = <<>>

\* the positions of the separators of a text
Separators(t) == {j \in 1..Len(t) : t[j] \in {"=", ":"}}

\* the line reaches the separator search of parse_line and its first
\* separator is not hidden behind an inline comment
PairLine(i) ==
    /\ Classified(i)
    /\ ~BlankLine(i)
    /\ ~CommentLine(i)
    /\ ~(opts.allow_multiline /\ IndentedUnderKey(i))
    /\ Content(i)[1] # "["
    /\ Separators(Content(i)) # {}
    /\ opts.allow_inline_comments =>
          \A j \in CommentStarts(Content(i)) : j > Min(Separators(Content(i)))

\* C7: a key/value line is split at its first '=' or ':': the name is the
\* text before it, stripped; the value is the text after it, further
\* separators included, cut at its inline comment when those are enabled and
\* stripped; nothing after the separator gives the empty value.  The name is
\* the new previous key.
C7_SplitAtFirstSeparator ==
    \A i \in 1..Len(log) :
        PairLine(i) =>
            LET t == Content(i)
                p == Min(Separators(t))
                after == SubSeq(t, p + 1, Len(t))
                name == Stripped(SubSeq(t, 1, p - 1))
                value == IF opts.allow_inline_comments
                         THEN WithoutComment(after) ELSE Stripped(after)
            IN /\ log[i].call = <<Event(log[i].section, name, value)>>
               /\ after = <<>> => log[i].call[1].value = <<>>
               /\ PrevNameAfter(i) = name
               /\ SectionAfter(i) = log[i].section

\* "a:=a" is split at the colon and keeps the '=' in its value
C7_Witness ==
    /\ Len(log) = 1
    /\ RawLine(1) = <<"a", ":", "=", "a">>
    /\ log[1].call = <<Event(<<>>, <<"a">>, <<"=", "a">>)>>
    /\ get(values, <<>>, <<"a">>, <<>>) = <<"=", "a">>

\* the comment characters of a text
CommentChars(t) ==
    {j \in 1..Len(t) : \E q \in 1..Len(opts.inline_comment_prefixes) :
                           t[j] = opts.inline_comment_prefixes[q]}

\* C8: with inline comments enabled, a comment character starts a comment
\* only after whitespace.  On a key/value line the name keeps every comment
\* character of the text before the separator; a value part without a
\* comment character that follows whitespace is kept whole, comment
\* characters included; otherwise the value is the value part before the
\* first comment character that follows whitespace.
C8_CommentNeedsWhitespace ==
    \A i \in 1..Len(log) :
        (opts.allow_inline_comments /\ PairLine(i)) =>
            LET t == Content(i)
                p == Min(Separators(t))
                before == SubSeq(t, 1, p - 1)
                after == SubSeq(t, p + 1, Len(t))
                ev == log[i].call[1]
            IN /\ log[i].call # <<>>
               /\ Cardinality(CommentChars(ev.name)) = Cardinality(CommentChars(before))
               /\ IF CommentStarts(after) = {}
                  THEN /\ ev.value = Stripped(after)
                       /\ Cardinality(CommentChars(ev.value))
                            = Cardinality(CommentChars(after))
                  ELSE /\ ev.value = Stripped(SubSeq(after, 1, Min(CommentStarts(after)) - 1))
                       /\ CommentStarts(ev.value) = {}

\* "a=; ;": the ';' right after the separator is kept, the one after the
\* space starts the comment
C8_Witness ==
    /\ opts.allow_inline_comments
    /\ Len(log) = 1
    /\ RawLine(1) = <<"=", ";", " ", ";">>
    /\ log[1].call # <<>>
    /\ log[1].call[1].value = <<";">>

\* the line reaches the separator search of parse_line
SearchedLine(i) ==
    /\ Classified(i)
    /\ ~BlankLine(i)
    /\ ~CommentLine(i)
    /\ ~(opts.allow_multiline /\ IndentedUnderKey(i))
    /\ Content(i)[1] # "["

\* inline comments are enabled and one starts before any separator of the line
HiddenSeparatorLine(i) ==
    /\ SearchedLine(i)
    /\ opts.allow_inline_comments
    /\ CommentStarts(Content(i)) # {}
    /\ \A j \in Separators(Content(i)) : j > Min(CommentStarts(Content(i)))

\* what a line does that matched no shape
IsFallback(i) ==
    /\ log[i].call = <<>>
    /\ log[i].error = (IF opts.stop_on_first_error
                       THEN ParseError(log[i].line, "Invalid line format")
                       ELSE NoError)
    /\ SectionAfter(i) = log[i].section
    /\ PrevNameAfter(i) = log[i].prev_name

\* C21 (as claimed): a line in which an inline comment starts before any
\* '=' or ':' is not split: with allow_no_value it gives the key-only event,
\* named by the line up to the comment and with the empty value, and without
\* allow_no_value it falls through to the fallback.
C21_CommentHidesSeparator ==
    \A i \in 1..Len(log) :
        HiddenSeparatorLine(i) =>
            IF opts.allow_no_value
            THEN /\ log[i].call
                      = <<Event(log[i].section, WithoutComment(Content(i)), <<>>)>>
                 /\ PrevNameAfter(i) = WithoutComment(Content(i))
            ELSE IsFallback(i)

\* C22 (as claimed): with allow_no_value, a line that reaches the separator
\* search and holds no '=' or ':' gives one event whose name is the whole
\* content of the line, up to its inline comment when those are enabled,
\* and whose value is empty; the name is the new previous key.
C22_KeyOnlyLine ==
    \A i \in 1..Len(log) :
        (opts.allow_no_value /\ SearchedLine(i) /\ Separators(Content(i)) = {}) =>
            LET name == IF opts.allow_inline_comments
                        THEN WithoutComment(Content(i)) ELSE Content(i)
            IN /\ log[i].call = <<Event(log[i].section, name, <<>>)>>
               /\ log[i].error = NoError
               /\ PrevNameAfter(i) = name
               /\ SectionAfter(i) = log[i].section

\* the line matches no shape: it reaches the separator search, it is not a
\* key/value line (it holds no separator, or an inline comment starts before
\* its first separator) and key-only lines are not allowed
ShapelessLine(i) ==
    /\ SearchedLine(i)
    /\ ~PairLine(i)
    /\ ~opts.allow_no_value

\* C23 (as claimed): a line that matches no shape makes no handler call and
\* leaves section and previous key alone; with stop_on_first_error it raises
\* the 'Invalid line format' ParseError with its line number, which the
\* parse returns; without it raises nothing, and a lenient parse in which no
\* other line raises an error returns Ok.
C23_FallbackStrictOrSilent ==
    /\ \A i \in 1..Len(log) :
          ShapelessLine(i) =>
              /\ IsFallback(i)
              /\ opts.stop_on_first_error =>
                    /\ log[i].error.kind = "ParseError"
                    /\ log[i].error.line = i
                    /\ pc = "done" /\ result = log[i].error
              /\ ~opts.stop_on_first_error => log[i].error = NoError
    /\ (pc = "done" /\ ~opts.stop_on_first_error
          /\ \A i \in 1..Len(log) : ShapelessLine(i) \/ log[i].error = NoError)
         => result = Ok

\* C24 (as claimed): with allow_bom, a parse of an input whose first line
\* starts with the byte order mark delivers the events and returns the
\* result of the parse of the same input without the mark, whatever the
\* first line and max_line are; on a line other than the first, and on every
\* line without allow_bom, the mark stays: it is the first character of the
\* name of the event such a line makes.
C24_BomIsTransparent ==
    /\ (pc = "done" /\ opts.allow_bom /\ lines # <<>> /\ StartsWith(lines[1], BOM)) =>
          LET unmarked == ini_parse_lines_with_options(<<Tail(lines[1])>> \o Tail(lines),
                                                      opts, handler)
          IN /\ CallsOf(log) = unmarked.events
             /\ result = unmarked.result
    /\ \A i \in 1..Len(log) :
          (StartsWith(RawLine(i), BOM) /\ (i > 1 \/ ~opts.allow_bom) /\ log[i].call # <<>>) =>
              StartsWith(log[i].call[1].name, BOM)

\* the accepted section headers before entry i: the header lines for which
\* the handler was called
HeadersBefore(i) == {j \in 1..(i - 1) : HeaderLine(j) /\ log[j].call # <<>>}

\* the section current at entry i: the one the last accepted header before
\* it announced, the empty one when there is none
CurrentSectionAt(i) ==
    IF HeadersBefore(i) = {} THEN <<>>
    ELSE log[Max(HeadersBefore(i))].call[1].section

\* C26: each physical line causes at most one handler call and the lines
\* are taken in increasing order, so the calls the consumer has received are
\* the calls of the lines in file order, and every key event (the event of
\* a line that is not a header) carries the section that was current at its
\* line.
C26_OneCallPerLineInOrder ==
    /\ \A i \in 1..Len(log) :
          /\ log[i].line = i
          /\ Len(log[i].call) <= 1
    /\ line_number = Len(log)
    /\ handler = "config" => recorded = CallsOf(log)
    /\ \A i \in CallLines :
          ~HeaderLine(i) => log[i].call[1].section = CurrentSectionAt(i)

\* a key before the first header, a header, the same key in the new section
C26_Witness ==
    /\ handler = "config"
    /\ recorded = <<Event(<<>>, <<"k">>, <<"1">>),
                    Event(<<"s">>, <<>>, <<>>),
                    Event(<<"s">>, <<"k">>, <<"1">>)>>
    /\ Len(log) = 3
    /\ log[3].section = <<"s">>

\* the other input path
OtherPath(path) == IF path = "string" THEN "reader" ELSE "string"

RECURSIVE OriginalLines(_)
\* the lines of a text with their original content: what stands between
\* its line terminators
OriginalLines(text) ==
    IF text = <<>> THEN <<>>
    ELSE LET ends == {i \in 1..Len(text) : text[i] = NL}
             stop == IF ends = {} THEN Len(text) + 1 ELSE Min(ends)
         IN <<SubSeq(text, 1, stop - 1)>> \o
            OriginalLines(SubSeq(text, stop + 1, Len(text)))

\* C27 (as claimed): whichever path a text is parsed through, the lines
\* handed to the classifier are the lines of the text with their original
\* content, and the parse delivers the events and returns the result that
\* the parse of the same text through the other path does, also when lines
\* end with whitespace.
C27_PathsAgree ==
    (pc = "done" /\ source.path \in {"string", "reader"}) =>
        LET other == ini_parse_lines_with_options(
                         PathLines(OtherPath(source.path), source.text), opts, handler)
        IN /\ lines = OriginalLines(source.text)
           /\ CallsOf(log) = other.events
           /\ result = other.result

\* C28 (as claimed): the handler is called with an empty name only for
\* section-header lines; the event of every other line has a name, and the
\* reader holds a value for it.
C28_EmptyNameOnlyForHeaders ==
    \A i \in CallLines :
        ~HeaderLine(i) =>
            /\ log[i].call[1].name # <<>>
            /\ (handler = "reader" /\ i = Len(log)) =>
                  has_value(values, log[i].call[1].section, log[i].call[1].name)

\* entry i is an accepted section header: a header line for which the
\* handler was called
AcceptedHeader(i) == HeaderLine(i) /\ log[i].call # <<>>

\* entry i is a key event: a handler call for a line that is not a header
KeyEvent(i) == ~HeaderLine(i) /\ log[i].call # <<>>

\* entry i leaves the current section and the previous key as they were
StateKept(i) ==
    /\ SectionAfter(i) = log[i].section
    /\ PrevNameAfter(i) = log[i].prev_name

\* C29: the current section changes only at an accepted section header; the
\* previous key changes only at an accepted header, which resets it, or at
\* a key event, which sets it to the event's name; lines that are too long,
\* blank lines, comment lines, continuation lines, lines skipped without a
\* call and lines that raise a ParseError leave both as they were.
C29_StateChangesOnlyOnAccepted ==
    \A i \in 1..Len(log) :
        /\ SectionAfter(i) # log[i].section => AcceptedHeader(i)
        /\ PrevNameAfter(i) # log[i].prev_name =>
              \/ AcceptedHeader(i) /\ PrevNameAfter(i) = <<>>
              \/ KeyEvent(i) /\ PrevNameAfter(i) = log[i].call[1].name
        /\ ~Classified(i) => StateKept(i)
        /\ (Classified(i) /\ (BlankLine(i) \/ CommentLine(i))) => StateKept(i)
        /\ (opts.allow_multiline /\ ContinuationCandidate(i)) => StateKept(i)
        /\ (log[i].call = <<>> /\ log[i].error = NoError) => StateKept(i)
        /\ log[i].error.kind = "ParseError" => StateKept(i)

\* a lenient parse: a key, a header without ']' that raises a ParseError,
\* then an indented line that still continues the key
C29_Witness ==
    /\ ~opts.stop_on_first_error
    /\ Len(log) = 3
    /\ log[1].call = <<Event(<<>>, <<"k">>, <<"1">>)>>
    /\ HeaderLine(2)
    /\ log[2].error = ParseError(2, "Missing ']' in section header")
    /\ log[3].prev_name = <<"k">>
    /\ log[3].call = <<Event(<<>>, <<"k">>, <<" ", "3">>)>>

\* the parse of the same lines by the same consumer under the same options
\* except stop_on_first_error
WithStop(stop) ==
    ini_parse_lines_with_options(lines, [opts EXCEPT !.stop_on_first_error = stop],
                                 handler)

\* a sequence of events starts another
EventsPrefix(short, long) ==
    /\ Len(short) <= Len(long)
    /\ short = SubSeq(long, 1, Len(short))

\* C30: for the same lines, the same other options and the same consumer,
\* the events a finished strict parse has delivered are a prefix of the
\* events of the lenient parse, and the events of a finished lenient parse
\* start with the events of the strict parse; when the strict parse returns
\* Ok, the lenient parse returns Ok with the same events.
C30_StrictIsPrefixOfLenient ==
    pc = "done" =>
        IF opts.stop_on_first_error
        THEN /\ EventsPrefix(CallsOf(log), WithStop(FALSE).events)
             /\ result = Ok =>
                   /\ WithStop(FALSE).result = Ok
                   /\ WithStop(FALSE).events = CallsOf(log)
        ELSE /\ EventsPrefix(WithStop(TRUE).events, CallsOf(log))
             /\ WithStop(TRUE).result = Ok =>
                   /\ result = Ok
                   /\ WithStop(TRUE).events = CallsOf(log)

\* a strict parse of three lines that stopped at the second after one
\* event, where the lenient parse goes on to deliver another
C30_Witness ==
    /\ pc = "done"
    /\ opts.stop_on_first_error
    /\ Len(lines) = 3
    /\ Len(log) = 2
    /\ Len(CallsOf(log)) = 1
    /\ result.kind = "ParseError"
    /\ Len(WithStop(FALSE).events) = 2

\* the consumer refused the event of entry i
Refused(i) == log[i].error.kind = "HandlerError"

\* no accepted or refused header stands between entries i and j
NoHeaderBetween(i, j) == \A m \in (i + 1)..(j - 1) : ~AcceptedHeader(m)

\* no header and no key line stands between entries i and j
NothingNamedBetween(i, j) ==
    \A m \in (i + 1)..(j - 1) : log[m].call = <<>> \/ log[m].call[1].name = log[i].call[1].name

\* C31: the section and the previous key are updated before the consumer is
\* called.  After a refused section event the current section is the new
\* section and the previous key is reset; after a refused key event that
\* key is the previous key; so the key events that follow a refused header
\* carry its section, and the continuation lines that follow a refused key
\* carry its name.
C31_StateUpdatedBeforeCall ==
    \A i \in 1..Len(log) :
        Refused(i) =>
            /\ HeaderLine(i) =>
                  /\ SectionAfter(i) = log[i].call[1].section
                  /\ PrevNameAfter(i) = <<>>
                  /\ \A j \in (i + 1)..Len(log) :
                        (KeyEvent(j) /\ NoHeaderBetween(i, j)) =>
                            log[j].call[1].section = log[i].call[1].section
            /\ ~HeaderLine(i) =>
                  /\ SectionAfter(i) = log[i].section
                  /\ PrevNameAfter(i) = log[i].call[1].name
                  /\ \A j \in (i + 1)..Len(log) :
                        (/\ opts.allow_multiline
                         /\ ContinuationCandidate(j)
                         /\ NoHeaderBetween(i, j)
                         /\ NothingNamedBetween(i, j)) =>
                            /\ log[j].call # <<>>
                            /\ log[j].call[1].name = log[i].call[1].name

\* a lenient parse for the consumer that refuses everything: the refused
\* header's section is on the refused key, whose name is on the continuation
C31_Witness ==
    /\ ~opts.stop_on_first_error
    /\ Len(log) = 3
    /\ \A i \in 1..3 : Refused(i)
    /\ log[1].call = <<Event(<<"s">>, <<>>, <<>>)>>
    /\ log[2].call = <<Event(<<"s">>, <<"k">>, <<"1">>)>>
    /\ log[3].call = <<Event(<<"s">>, <<"k">>, <<" ", "3">>)>>
    /\ section = <<"s">>
    /\ prev_name = <<"k">>

\* C32: construction is all-or-nothing.  Whenever the parse has reported a
\* fault on some line, with stop_on_first_error or without, the constructor
\* returns the error of the parse and no reader, so the values and sections
\* gathered are not obtainable; when it has reported none, the constructor
\* returns the reader with those values and sections; and parse_error is
\* None on every reader returned.
C32_ConstructionAllOrNothing ==
    pc = "returned" =>
        LET out == answer.returned
        IN /\ FaultLines # {} =>
                 /\ ~out.ok
                 /\ out.reader = <<>>
                 /\ out.error = result
                 /\ out.error # Ok
           /\ FaultLines = {} =>
                 /\ out.ok
                 /\ Len(out.reader) = 1
                 /\ out.reader[1].values = values
                 /\ out.reader[1].sections = sections
           /\ \A i \in 1..Len(out.reader) : parse_error(out.reader[i]) = NoError

\* a lenient parse that stored a value, met a faulty header and stored
\* another value, after which the constructor returned only the error
C32_Witness ==
    /\ pc = "returned"
    /\ answer.op = "from_string_with_options"
    /\ ~opts.stop_on_first_error
    /\ Len(log) = 3
    /\ FaultLines = {2}
    /\ has_value(values, <<>>, <<"k">>)
    /\ has_section(sections, <<"s">>)
    /\ answer.returned.reader = <<>>
    /\ answer.returned.error = ParseError(2, "Missing ']' in section header")

----------------------------------------------------------------------------
(* Properties of the reader's listings and accessors *)

\* the elements of a sequence
Range(q) == {q[i] : i \in 1..Len(q)}

\* the names of the section headers accepted so far
AcceptedNames ==
    {SectionAfter(i) : i \in {j \in 1..Len(log) : HeaderLine(j) /\ log[j].error = NoError}}

\* C11: sections() of the reader a parse feeds lists exactly the names of
\* the section headers accepted so far, each once, in strictly ascending
\* byte order, whether or not keys follow the header; the empty name is not
\* among them.
C11_SectionsSortedExact ==
    handler = "reader" =>
        LET out == sections_list(sections)
        IN /\ Range(out) = AcceptedNames
           /\ <<>> \notin Range(out)
           /\ Len(out) = Cardinality(AcceptedNames)
           /\ \A i \in 1..(Len(out) - 1) : TextLess(out[i], out[i + 1])

\* "[s]", "[S=k]", "[s]" without any key: two names, the upper-case one first
C11_Witness ==
    /\ handler = "reader"
    /\ pc = "done"
    /\ lines = << <<"[", "s", "]">>, <<"[", "S", "=", "k", "]">>, <<"[", "s", "]">> >>
    /\ values = <<>>
    /\ sections_list(sections) = << <<"S", "=", "k">>, <<"s">> >>

\* the section arguments keys() is asked with
QuerySections ==
    {<<>>, <<"s">>, <<"S">>, <<"s", "=", "k">>, <<"S", "=", "k">>, <<"t">>}

\* the names, as stored, of the keys the events so far put under a section
KeyNamesUnder(sec) ==
    {ToLower(CallsOf(log)[i].name) :
        i \in {j \in 1..Len(CallsOf(log)) :
                  /\ CallsOf(log)[j].name # <<>>
                  /\ SameIgnoringCase(CallsOf(log)[j].section, sec)}}

\* C12 (as claimed): keys(section) lists exactly the names of the keys that
\* events put under that section, whatever the casing of the argument, each
\* once and in ascending order, and no name of a key of another section,
\* also when section names contain '='.
C12_KeysExactPerSection ==
    handler = "reader" =>
        \A sec \in QuerySections :
            LET out == keys(values, sec)
            IN /\ Range(out) = KeyNamesUnder(sec)
               /\ \A i \in 1..(Len(out) - 1) : TextLess(out[i], out[i + 1])

\* the defaults the text accessors are asked with
TextDefaults == {<<>>, <<"d">>}

\* C13: for every section and name, get returns the caller's default when
\* no call stored the key and the stored text (all its values, joined) when
\* one did; get_string returns the same except that it returns the default
\* for a key stored with the empty text, for which has_value is true.
C13_GetAndGetString ==
    \A sec \in CallSections, name \in CallNames, d \in TextDefaults :
        LET vs == ValuesFor(log, sec, name)
        IN IF vs = <<>>
           THEN /\ get(values, sec, name, d) = d
                /\ get_string(values, sec, name, d) = d
                /\ ~has_value(values, sec, name)
           ELSE /\ get(values, sec, name, d) = JoinLines(vs)
                /\ has_value(values, sec, name)
                /\ get_string(values, sec, name, d)
                     = (IF JoinLines(vs) = <<>> THEN d ELSE JoinLines(vs))

\* a key stored once with the empty value, another key absent
C13_Witness ==
    /\ Len(log) = 1
    /\ log[1].call[1] = Event(<<"s">>, <<"k">>, <<>>)
    /\ has_value(values, <<"s">>, <<"k">>)
    /\ get(values, <<"s">>, <<"k">>, <<"d">>) = <<>>
    /\ get_string(values, <<"s">>, <<"k">>, <<"d">>) = <<"d">>
    /\ get(values, <<>>, <<"k">>, <<"d">>) = <<"d">>
    /\ ~has_value(values, <<>>, <<"k">>)

\* no section header was accepted before entry i
NoHeaderBefore(i) ==
    \A j \in 1..(i - 1) : ~(HeaderLine(j) /\ log[j].error = NoError)

\* C14: every event of a line that comes before any accepted section header
\* carries the empty section, and the reader returns its key under section
\* ""; the empty name is never in the reader's section set.
C14_EmptySectionBeforeHeaders ==
    /\ \A i \in CallLines :
          (NoHeaderBefore(i) /\ log[i].call[1].name # <<>>) =>
              LET ev == log[i].call[1]
              IN /\ log[i].section = <<>>
                 /\ ev.section = <<>>
                 /\ handler = "reader" =>
                       /\ has_value(values, <<>>, ev.name)
                       /\ get(values, <<>>, ev.name, <<"d">>)
                            = JoinLines(ValuesFor(log, <<>>, ev.name))
    /\ handler = "reader" =>
          /\ <<>> \notin sections
          /\ ~has_section(sections, <<>>)
          /\ <<>> \notin Range(sections_list(sections))

\* "k=1" before and after the header "[s]": one value under "", one under
\* "s", and only "s" registered
C14_Witness ==
    /\ handler = "reader"
    /\ pc = "done"
    /\ lines = << <<"k", "=", "1">>, <<"[", "s", "]">>, <<"k", "=", "1">> >>
    /\ log[1].call = <<Event(<<>>, <<"k">>, <<"1">>)>>
    /\ get(values, <<>>, <<"k">>, <<"d">>) = <<"1">>
    /\ get(values, <<"s">>, <<"k">>, <<"d">>) = <<"1">>
    /\ sections = {<<"s">>}

\* the error of an over-long line
IsTooLongError(e) ==
    e.kind = "ParseError" /\ e.message = "Line too long"

\* C15: a line longer than max_line raises the 'Line too long' ParseError
\* with its own 1-based number, makes no handler call and leaves section and
\* previous key as they were; a line of at most max_line bytes never raises
\* that error, and the line of exactly max_line bytes that the inputs hold,
\* "forbidden=1", is parsed as the key/value line it is.
C15_LineTooLong ==
    \A i \in 1..Len(log) :
        /\ ByteLen(RawLine(i)) > opts.max_line =>
              /\ log[i].error = ParseError(i, "Line too long")
              /\ IsTooLongError(log[i].error)
              /\ log[i].error.line = log[i].line
              /\ log[i].call = <<>>
              /\ SectionAfter(i) = log[i].section
              /\ PrevNameAfter(i) = log[i].prev_name
        /\ ByteLen(RawLine(i)) <= opts.max_line => ~IsTooLongError(log[i].error)
        /\ (ByteLen(RawLine(i)) = opts.max_line /\ RawLine(i) = Forbidden \o <<"=", "1">>) =>
              /\ log[i].call = <<Event(log[i].section, Forbidden, <<"1">>)>>
              /\ PrevNameAfter(i) = Forbidden

\* a lenient parse: key, over-long line, line of exactly max_line bytes
C15_Witness ==
    /\ ~opts.stop_on_first_error
    /\ handler = "reader"
    /\ pc = "done"
    /\ lines = << <<"k", "=", "1">>, Forbidden \o <<"=", "1", "2">>, Forbidden \o <<"=", "1">> >>
    /\ ByteLen(lines[2]) = opts.max_line + 1
    /\ ByteLen(lines[3]) = opts.max_line
    /\ log[2].error = ParseError(2, "Line too long")
    /\ log[2].call = <<>>
    /\ log[3].prev_name = <<"k">>
    /\ log[3].call = <<Event(<<>>, Forbidden, <<"1">>)>>
    /\ result = ParseError(2, "Line too long")

\* C16 (as claimed): every error a line raises, a ParseError or the
\* HandlerError that wraps a consumer's rejection, identifies the 1-based
\* number of that line, and so does the error the parse returns.
C16_ErrorsCarryTheirLine ==
    /\ \A i \in FaultLines :
          /\ "line" \in DOMAIN log[i].error
          /\ log[i].error.line = log[i].line
    /\ (pc = "done" /\ result # Ok) =>
          /\ "line" \in DOMAIN result
          /\ result.line \in FaultLines

\* C19 (as claimed): the name an accepted section header sets is the text
\* between its '[' and its first ']', inner spaces kept, and it is the
\* section of the event made for the header and of the lines that follow.
C19_SectionNameIsBracketText ==
    \A i \in 1..Len(log) :
        (HeaderLine(i) /\ log[i].error = NoError) =>
            LET t == Content(i)
                closes == {j \in 2..Len(t) : t[j] = "]"}
            IN /\ closes # {}
               /\ SectionAfter(i) = SubSeq(t, 2, Min(closes) - 1)
               /\ log[i].call # <<>>
               /\ log[i].call[1].section = SubSeq(t, 2, Min(closes) - 1)

\* C20 (as claimed): no operation that the reader offers to its users
\* changes the values or the section set of a constructed reader.  The
\* reader of this specification is the one IniReader::from_string("")
\* returns, and the operation is IniHandler::handle, which IniReader
\* implements publicly.
C20_ReaderNeverChanges ==
    [][values' = values /\ sections' = sections]_vars

----------------------------------------------------------------------------
(* Properties of the typed accessors.  The reader holds the one key s.k;   *)
(* Stored is the text it was stored with.                                  *)

Stored == log[1].call[1].value

\* the accessor was asked for the stored key, in some casing
AsksStoredKey ==
    /\ SameIgnoringCase(answer.section, <<"s">>)
    /\ SameIgnoringCase(answer.name, <<"k">>)

WordsForTrue == {<<"t","r","u","e">>, <<"y","e","s">>, <<"o","n">>, <<"1">>}
WordsForFalse == {<<"f","a","l","s","e">>, <<"n","o">>, <<"o","f","f">>, <<"0">>}

\* C17: get_boolean answers a boolean for every stored text: true when the
\* text is one of true/yes/on/1 in any casing, false when it is one of
\* false/no/off/0 in any casing, and the caller's default for any other text
\* and for a key that is not stored.
C17_BooleanWords ==
    answer.op = "get_boolean" =>
        /\ answer.result \in BOOLEAN
        /\ answer.result =
              (IF AsksStoredKey /\ \E w \in WordsForTrue : SameIgnoringCase(Stored, w)
               THEN TRUE
               ELSE IF AsksStoredKey /\ \E w \in WordsForFalse : SameIgnoringCase(Stored, w)
                    THEN FALSE
               ELSE answer.default)

\* "OFF" read as false against the default true, through the name "K"
C17_Witness ==
    /\ answer.op = "get_boolean"
    /\ Stored = <<"O", "F", "F">>
    /\ answer.name = <<"K">>
    /\ answer.default = TRUE
    /\ answer.result = FALSE

\* the value of each digit
DigitValue ==
    ("0" :> 0) @@ ("1" :> 1) @@ ("2" :> 2) @@ ("3" :> 3) @@ ("4" :> 4) @@ ("5" :> 5) @@ ("6" :> 6) @@ ("7" :> 7) @@ ("8" :> 8) @@ ("9" :> 9) @@
    ("a" :> 10) @@ ("b" :> 11) @@ ("c" :> 12) @@ ("d" :> 13) @@ ("e" :> 14) @@ ("f" :> 15) @@
    ("A" :> 10) @@ ("B" :> 11) @@ ("C" :> 12) @@ ("D" :> 13) @@ ("E" :> 14) @@ ("F" :> 15)

\* a number text without its sign
NumberBody(t) == IF t # <<>> /\ t[1] \in {"+", "-"} THEN Tail(t) ELSE t

\* an optional sign followed by one or more digits of the base
IsNumberText(t, base) ==
    /\ NumberBody(t) # <<>>
    /\ \A i \in 1..Len(NumberBody(t)) :
          /\ NumberBody(t)[i] \in DOMAIN DigitValue
          /\ DigitValue[NumberBody(t)[i]] < base

\* the digits of a number text from its first non-zero digit on
Significant(t) ==
    LET body == NumberBody(t)
        nonzero == {i \in 1..Len(body) : body[i] # "0"}
    IN IF nonzero = {} THEN <<>> ELSE SubSeq(body, Min(nonzero), Len(body))

RECURSIVE PlaceValue(_, _)
\* the number a short digit text denotes in a base
PlaceValue(ds, base) ==
    IF ds = <<>> THEN 0
    ELSE PlaceValue(SubSeq(ds, 1, Len(ds) - 1), base) * base + DigitValue[ds[Len(ds)]]

\* the stored texts of more than seven significant digits that are within
\* i64, with their values; 2^63 - 1 and -2^63 are the last six
LargeInRange ==
    (<<"4", "2", "9", "4", "9", "6", "7", "2", "9", "6">> :> [neg |-> FALSE, mag |-> <<0, 1, 0, 0>>]) @@
    (<<"-", "1", "0", "0", "0", "0", "0", "0", "0", "0", "0", "0", "0", "0">> :> [neg |-> TRUE, mag |-> <<0, 232, 54437, 4096>>]) @@
    (<<"2", "8", "1", "4", "7", "4", "9", "7", "6", "7", "1", "0", "6", "5", "6">> :> [neg |-> FALSE, mag |-> <<1, 0, 0, 0>>]) @@
    (<<"0", "x", "1", "2", "3", "4", "5", "6", "7", "8", "9", "A", "b", "C", "d", "E", "f">> :> [neg |-> FALSE, mag |-> <<291, 17767, 35243, 52719>>]) @@
    (<<"0", "X", "-", "f", "e", "d", "c", "b", "a", "9", "8", "7", "6">> :> [neg |-> TRUE, mag |-> <<0, 254, 56506, 39030>>]) @@
    (<<"6", "5", "5", "3", "6", "0", "0", "0", "0", "0", "0">> :> [neg |-> FALSE, mag |-> <<0, 15, 16960, 0>>]) @@
    (<<"9", "2", "2", "3", "3", "7", "2", "0", "3", "6", "8", "5", "4", "7", "7", "5", "8", "0", "7">> :> [neg |-> FALSE, mag |-> <<32767, 65535, 65535, 65535>>]) @@
    (<<"+", "9", "2", "2", "3", "3", "7", "2", "0", "3", "6", "8", "5", "4", "7", "7", "5", "8", "0", "7">> :> [neg |-> FALSE, mag |-> <<32767, 65535, 65535, 65535>>]) @@
    (<<"0", "0", "0", "9", "2", "2", "3", "3", "7", "2", "0", "3", "6", "8", "5", "4", "7", "7", "5", "8", "0", "7">> :> [neg |-> FALSE, mag |-> <<32767, 65535, 65535, 65535>>]) @@
    (<<"0", "x", "7", "F", "F", "F", "F", "F", "F", "F", "F", "F", "F", "F", "F", "F", "F", "F">> :> [neg |-> FALSE, mag |-> <<32767, 65535, 65535, 65535>>]) @@
    (<<"-", "9", "2", "2", "3", "3", "7", "2", "0", "3", "6", "8", "5", "4", "7", "7", "5", "8", "0", "8">> :> [neg |-> TRUE, mag |-> <<32768, 0, 0, 0>>]) @@
    (<<"0", "x", "-", "8", "0", "0", "0", "0", "0", "0", "0", "0", "0", "0", "0", "0", "0", "0", "0">> :> [neg |-> TRUE, mag |-> <<32768, 0, 0, 0>>])

\* what the claim says get_integer returns for a stored text v and default d
ClaimedInteger(v, d) ==
    LET hex == Len(v) >= 2 /\ v[1] = "0" /\ v[2] \in {"x", "X"}
        t == IF hex THEN SubSeq(v, 3, Len(v)) ELSE v
        base == IF hex THEN 16 ELSE 10
    IN IF ~IsNumberText(t, base) THEN d
       ELSE IF Len(Significant(t)) <= 7
            THEN I64Of(IF t[1] = "-" THEN 0 - PlaceValue(Significant(t), base)
                       ELSE PlaceValue(Significant(t), base))
       ELSE IF v \in DOMAIN LargeInRange THEN LargeInRange[v]
       ELSE d

\* C18: get_integer and get_integer64 return, for a stored text that starts
\* with 0x or 0X, the hexadecimal value of the rest, and for any other text
\* its signed decimal value; they return the caller's default when the key
\* is not stored and when the text is not a number of the base that the
\* prefix selects (empty, a character that is no digit, beyond the range of a
\* 64-bit signed integer).
C18_IntegerParse ==
    answer.op \in {"get_integer", "get_integer64"} =>
        answer.result =
            (IF AsksStoredKey THEN ClaimedInteger(Stored, answer.default)
             ELSE answer.default)

\* "0x1A" read as 26 against the default -1
C18_Witness ==
    /\ answer.op = "get_integer"
    /\ Stored = <<"0", "x", "1", "A">>
    /\ answer.name = <<"k">>
    /\ answer.default = I64Of(0 - 1)
    /\ answer.result = I64Of(26)

====
